---- MODULE Spec2Model ----
(***************************************************************************)
(* File-sharing web application: the upload page (FileUpload.tsx), the     *)
(* download page (FileDownload) and the cleanup-expired-files edge         *)
(* function, all talking to one backend: the `files` table and the `files` *)
(* storage bucket.                                                         *)
(*                                                                         *)
(* Every handler is cut at its awaited backend calls.  An action is "the   *)
(* awaited call takes effect on the backend and answers, and the handler   *)
(* runs on to its next awaited call (or to its end)".  A timestamp the     *)
(* client computes with `new Date()` is therefore read in the step that    *)
(* issues the call and used in the step in which the call takes effect.    *)
(*                                                                         *)
(* A backend call fails (returns an error and has no effect) exactly when  *)
(* upstreamOk is FALSE in the step in which it is answered; the            *)
(* environment switches upstreamOk freely between steps.                   *)
(***************************************************************************)
EXTENDS Integers, Sequences, FiniteSets, TLC

\* ------------------------------------------------------------------ bounds
MaxTime == 2
MaxUploads == 1
MaxMinutes == 1
\* The longer horizon and the second upload of RaceSpec.
MaxRaceTime == 3
MaxRaceUploads == 2

\* ------------------------------------------------------------ input domains
\* The files a user may pick: a name and the bytes.
Files == { [name |-> "a.txt", bytes |-> <<1>>],
           [name |-> "b.txt", bytes |-> <<2, 2>>] }
\* What may be typed into a password field ('' is the empty field).
Passwords == {"", "abc", "xyz"}
\* The SelectItem values of the expiration selector.
ExpirationOptions == {1, 2, 5, 10}
\* Browser tabs showing the download page, and concurrent sweep invocations.
Pages == {"tab1"}
Sweepers == {"s1", "s2"}

Null == <<>>
NoLink == <<>>
NoResponse == <<>>

\* ------------------------------------------------------------------- state
VARIABLES
  now,         \* the wall clock, in minutes
  upstreamOk,  \* FALSE while backend calls fail
  files,       \* the `files` table: a set of rows
  storage,     \* the `files` bucket: a function from stored keys to bytes
  nextId,      \* ids crypto.randomUUID() has handed out so far
  up,          \* the upload page
  page,        \* the download pages
  sweep        \* the cleanup-expired-files invocations

vars == <<now, upstreamOk, files, storage, nextId, up, page, sweep>>

\* ------------------------------------------------------------ pure helpers
\* A digest that forgets its input.
hashPasswordCollides(password) == <<"sha256", "">>

\* SHA-256 over the UTF-8 password, as lowercase hex: a digest is never the
\* password itself and never null, and distinct passwords have distinct
\* digests.
hashPassword(password) == <<"sha256", password>>

\* `uploads/${fileId}/${file.name}`
FilePath(fileId, name) == <<"uploads", fileId, name>>

\* `${window.location.origin}/download/${fileId}`
ShareLink(fileId) == <<"download", fileId>>

\* The digest is stored whatever the field holds.
PasswordHashAlways(password) == hashPassword(password)

\* password ? await hashPassword(password) : null
PasswordHash(password) == IF password # "" THEN hashPassword(password) ELSE Null

\* expiresAt.setMinutes(expiresAt.getMinutes() + parseInt(expirationMinutes))
ExpiresAt(t, minutes) == t + minutes

\* The row handleUpload inserts.
FileRecord(fileId, f, filePath, passwordHash, expiresAt) ==
  [ id            |-> fileId,
    filename      |-> f.name,
    file_path     |-> filePath,
    file_size     |-> Len(f.bytes),
    password_hash |-> passwordHash,
    expires_at    |-> expiresAt ]

\* .eq('id', fileId)
RowsById(table, fileId) == { r \in table : r.id = fileId }

\* .lte instead of .lt
RowsExpiredAtOrBefore(table, ts) == { r \in table : r.expires_at <= ts }

\* .lt('expires_at', ts)
RowsExpiredBefore(table, ts) == { r \in table : r.expires_at < ts }

\* The comparison includes the expiry instant.
IsExpiredAtInstant(expiresAt, t) == expiresAt <= t

\* expiresAt < new Date()
IsExpired(expiresAt, t) == expiresAt < t

\* storage.remove(paths): the bucket without the given keys.
RemoveObjects(bucket, paths) ==
  [ k \in (DOMAIN bucket) \ paths |-> bucket[k] ]

\* storage.upload(path, file): the bucket with the file's bytes under path.
PutObject(bucket, path, bytes) ==
  [ k \in (DOMAIN bucket) \cup {path} |-> IF k = path THEN bytes ELSE bucket[k] ]

UpstreamMessage == "upstream failure"
\* .single() on a result that is not exactly one row answers with an error.
NoRowsMessage == "PGRST116: JSON object requested, multiple (or no) rows returned"
NotFoundMessage == "File not found"
ExpiredMessage == "File has expired and been deleted"

\* -------------------------------------------------------------------- Init
UpInit ==
  [ pc |-> "idle", file |-> Null, password |-> "", expirationMinutes |-> 0,
    uploading |-> FALSE, shareLink |-> NoLink, fileId |-> 0, filePath |-> Null,
    expiresAt |-> 0, toast |-> "none" ]

PageClosed ==
  [ pc |-> "closed", fileId |-> 0, data |-> Null, fileData |-> Null, password |-> "",
    loading |-> TRUE, downloading |-> FALSE, error |-> "", toast |-> "none",
    saved |-> Null ]

SweepIdle ==
  [ pc |-> "idle", ts |-> 0, expiredFiles |-> {}, response |-> NoResponse ]

Init ==
  /\ now = 0
  /\ upstreamOk = TRUE
  /\ files = {}
  /\ storage = << >>
  /\ nextId = 0
  /\ up = UpInit
  /\ page = [ p \in Pages |-> PageClosed ]
  /\ sweep = [ s \in Sweepers |-> SweepIdle ]

\* ------------------------------------------------------------- environment
\* The clock advances, up to the horizon.
TickTo(horizon) ==
  /\ now < horizon
  /\ now' = now + 1
  /\ UNCHANGED <<upstreamOk, files, storage, nextId, up, page, sweep>>

Tick == TickTo(MaxTime)

UpstreamFail ==
  /\ upstreamOk
  /\ upstreamOk' = FALSE
  /\ UNCHANGED <<now, files, storage, nextId, up, page, sweep>>

UpstreamRecover ==
  /\ ~upstreamOk
  /\ upstreamOk' = TRUE
  /\ UNCHANGED <<now, files, storage, nextId, up, page, sweep>>

\* ------------------------------------------------------------- upload page
\* The Upload button is rendered only while no share link is shown and is
\* disabled while !file || uploading.  The form's own state (file, password,
\* expirationMinutes) is what the user put there before the click, and the
\* handler works on the values its closure captured at the click: the click
\* carries them, and they are the invocation's values until it returns.
\* (With the button disabled while !file, the handler's own !file return,
\* lines 37-44, is never taken.)
(* handleUpload, lines 36-57: the click up to the awaited storage upload. *)
UploadClickUpTo(uploads, f, password, minutes) ==
  /\ up.pc = "idle"
  /\ up.shareLink = NoLink
  /\ ~up.uploading
  /\ nextId < uploads
  /\ nextId' = nextId + 1
  /\ up' = [ up EXCEPT !.pc = "put", !.file = f, !.password = password,
                       !.expirationMinutes = minutes, !.uploading = TRUE,
                       !.fileId = nextId + 1,
                       !.filePath = FilePath(nextId + 1, f.name) ]
  /\ UNCHANGED <<now, upstreamOk, files, storage, page, sweep>>

UploadClick(f, password, minutes) ==
  UploadClickUpTo(MaxUploads, f, password, minutes)

\* The upload's error is not looked at.
UploadErrorIgnored(uploadError) == FALSE

\* if (uploadError) throw uploadError;
UploadErrorThrows(uploadError) == uploadError

\* The insert's error is not looked at.
DbErrorIgnored(dbError) == FALSE

\* if (dbError) throw dbError;
DbErrorThrows(dbError) == dbError

\* The handler returns: the values it captured and its locals fileId, filePath
\* and expiresAt are gone; finally: setUploading(false).
UploadReturns(u) == [ UpInit EXCEPT !.shareLink = u.shareLink, !.toast = u.toast ]

\* catch: the 'Upload Failed' toast.
UploadFailed(u) == [ UploadReturns(u) EXCEPT !.toast = "Upload Failed" ]

\* lines 81-89: the share link and the success toast.
UploadSucceeded(u) == [ UploadReturns(u) EXCEPT !.shareLink = ShareLink(u.fileId),
                                                !.toast = "Success!" ]

(* handleUpload, lines 55-77: the storage upload answers; on success the    *)
(* handler computes expiresAt and the password hash and issues the insert.  *)
UploadPut ==
  /\ up.pc = "put"
  /\ LET uploadError == ~upstreamOk IN
       /\ storage' = IF uploadError THEN storage
                     ELSE PutObject(storage, up.filePath, up.file.bytes)
       /\ up' = IF UploadErrorThrows(uploadError)
                THEN UploadFailed(up)
                ELSE [ up EXCEPT !.pc = "insert",
                                 !.expiresAt = ExpiresAt(now, up.expirationMinutes) ]
  /\ UNCHANGED <<now, upstreamOk, files, nextId, page, sweep>>

(* handleUpload, lines 68-98: the insert answers; on success the share link *)
(* is set and the success toast shown.                                      *)
UploadInsert ==
  /\ up.pc = "insert"
  /\ LET dbError == ~upstreamOk IN
       /\ files' = IF dbError THEN files
                   ELSE files \cup { FileRecord(up.fileId, up.file, up.filePath,
                                                PasswordHash(up.password),
                                                up.expiresAt) }
       /\ up' = IF DbErrorThrows(dbError)
                THEN UploadFailed(up)
                ELSE UploadSucceeded(up)
  /\ UNCHANGED <<now, upstreamOk, storage, nextId, page, sweep>>

(* resetForm, lines 109-115 ("Upload Another File"). *)
ResetForm ==
  /\ up.pc = "idle"
  /\ up.shareLink # NoLink
  /\ up' = [ up EXCEPT !.shareLink = NoLink ]
  /\ UNCHANGED <<now, upstreamOk, files, storage, nextId, page, sweep>>

\* The expiration choices within the model's horizon.
Minutes == { m \in ExpirationOptions : m <= MaxMinutes }

\* The upload page, its user picking files in fs and typing passwords in ps.
Upload(fs, ps) ==
  \/ \E f \in fs, password \in ps, minutes \in Minutes :
       UploadClick(f, password, minutes)
  \/ UploadPut
  \/ UploadInsert
  \/ ResetForm

\* ----------------------------------------------------------- download page
\* PageError as it would be if the message were shown as a toast only.
PageErrorAsToast(pg, message) == [ pg EXCEPT !.pc = "ready", !.loading = FALSE,
                                             !.data = Null, !.toast = message ]

\* loadFileData ends with an error: setError(message); its local `data` is
\* gone; finally: setLoading(false).
PageError(pg, message) == [ pg EXCEPT !.pc = "ready", !.loading = FALSE,
                                      !.data = Null, !.error = message ]

\* loadFileData ends with setFileData(data); finally: setLoading(false).
PageLoaded(pg, data) == [ pg EXCEPT !.pc = "ready", !.loading = FALSE,
                                    !.fileData = data ]

(* useEffect, lines 29-39: the page is opened on /download/<fileId> and     *)
(* loadFileData issues the select.                                          *)
OpenPage(p, fileId) ==
  /\ page[p].pc = "closed"
  /\ page' = [ page EXCEPT ![p] = [ PageClosed EXCEPT !.pc = "lookup",
                                                      !.fileId = fileId ] ]
  /\ UNCHANGED <<now, upstreamOk, files, storage, nextId, up, sweep>>

(* loadFileData, lines 35-62: the select answers.  .single() answers with   *)
(* an error unless exactly one row matched, and the error is thrown; an     *)
(* expired row makes the handler issue the object removal.                  *)
LoadLookup(p) ==
  /\ page[p].pc = "lookup"
  /\ LET rows == RowsById(files, page[p].fileId)
         error == IF ~upstreamOk THEN UpstreamMessage
                  ELSE IF Cardinality(rows) # 1 THEN NoRowsMessage
                  ELSE ""
         data == IF error = "" THEN CHOOSE r \in rows : TRUE ELSE Null
     IN page' = [ page EXCEPT ![p] =
          IF error # "" THEN PageError(@, error)
          ELSE IF data = Null THEN PageError(@, NotFoundMessage)
          ELSE IF IsExpired(data.expires_at, now)
               THEN [ @ EXCEPT !.pc = "remove", !.data = data ]
          ELSE PageLoaded(@, data) ]
  /\ UNCHANGED <<now, upstreamOk, files, storage, nextId, up, sweep>>

(* loadFileData, line 50: storage.remove([data.file_path]) answers; its     *)
(* result is not looked at, and the handler issues the delete.              *)
LoadRemove(p) ==
  /\ page[p].pc = "remove"
  /\ storage' = IF upstreamOk
                THEN RemoveObjects(storage, {page[p].data.file_path})
                ELSE storage
  /\ page' = [ page EXCEPT ![p].pc = "delete" ]
  /\ UNCHANGED <<now, upstreamOk, files, nextId, up, sweep>>

(* loadFileData, lines 51-61: delete().eq('id', fileId) answers; its result *)
(* is not looked at; the expired error is set.                              *)
LoadDelete(p) ==
  /\ page[p].pc = "delete"
  /\ files' = IF upstreamOk THEN files \ RowsById(files, page[p].fileId)
              ELSE files
  /\ page' = [ page EXCEPT ![p] = PageError(@, ExpiredMessage) ]
  /\ UNCHANGED <<now, upstreamOk, storage, nextId, up, sweep>>

\* The main view is rendered: not loading, no error.
PageReady(pg) == pg.pc = "ready" /\ ~pg.loading /\ pg.error = ""

(* The password input, lines 189-204: rendered only when the record has a   *)
(* password hash, disabled while downloading.                               *)
SetPassword(p, password) ==
  /\ PageReady(page[p])
  /\ page[p].fileData # Null
  /\ page[p].fileData.password_hash # Null
  /\ ~page[p].downloading
  /\ page[p].password # password
  /\ page' = [ page EXCEPT ![p].password = password ]
  /\ UNCHANGED <<now, upstreamOk, files, storage, nextId, up, sweep>>

\* hashedInput !== fileData.password_hash
HashMismatch(hashedInput, passwordHash) == hashedInput # passwordHash

\* lines 76-95: "required", "incorrect" or "pass".
PasswordGate(fileData, password) ==
  IF fileData.password_hash # Null
  THEN IF password = "" THEN "required"
       ELSE IF HashMismatch(hashPassword(password), fileData.password_hash)
            THEN "incorrect"
       ELSE "pass"
  ELSE "pass"

\* DownloadClick as it would be if a refused attempt left the button disabled.
DownloadClickBlocksAfterFailure(p) ==
  /\ PageReady(page[p])
  /\ ~page[p].downloading
  /\ page[p].fileData # Null
  /\ LET gate == PasswordGate(page[p].fileData, page[p].password)
     IN page' = [ page EXCEPT ![p] =
          IF gate = "required"
          THEN [ @ EXCEPT !.toast = "Password Required", !.downloading = TRUE ]
          ELSE IF gate = "incorrect"
          THEN [ @ EXCEPT !.toast = "Incorrect Password", !.downloading = TRUE ]
          ELSE [ @ EXCEPT !.pc = "fetch", !.downloading = TRUE ] ]
  /\ UNCHANGED <<now, upstreamOk, files, storage, nextId, up, sweep>>

(* handleDownload, lines 73-102: the click on the Download button (disabled *)
(* while downloading) up to the awaited storage download.                   *)
DownloadClick(p) ==
  /\ PageReady(page[p])
  /\ ~page[p].downloading
  /\ page[p].fileData # Null
  /\ LET gate == PasswordGate(page[p].fileData, page[p].password)
     IN page' = [ page EXCEPT ![p] =
          IF gate = "required" THEN [ @ EXCEPT !.toast = "Password Required" ]
          ELSE IF gate = "incorrect" THEN [ @ EXCEPT !.toast = "Incorrect Password" ]
          ELSE [ @ EXCEPT !.pc = "fetch", !.downloading = TRUE ] ]
  /\ UNCHANGED <<now, upstreamOk, files, storage, nextId, up, sweep>>

\* DownloadResult as it would be if a missing object were answered with an
\* empty blob.
DownloadResultOfMissing(bucket, path, ok) ==
  IF ok
  THEN [ data |-> IF path \in DOMAIN bucket THEN bucket[path] ELSE << >>,
         error |-> FALSE ]
  ELSE [ data |-> Null, error |-> TRUE ]

\* storage.download(path): an error when the call fails or no object is there.
DownloadResult(bucket, path, ok) ==
  IF ok /\ path \in DOMAIN bucket
  THEN [ data |-> bucket[path], error |-> FALSE ]
  ELSE [ data |-> Null, error |-> TRUE ]

\* The anchor's download attribute is forgotten.
SavedFileUnnamed(fileData, data) == [ name |-> "download", bytes |-> data ]

\* a.download = fileData.filename; a.click()
SavedFile(fileData, data) == [ name |-> fileData.filename, bytes |-> data ]

(* handleDownload, lines 100-127: the storage download answers; the blob is *)
(* saved under the record's filename, or the failure toast is shown.        *)
DownloadFetch(p) ==
  /\ page[p].pc = "fetch"
  /\ LET res == DownloadResult(storage, page[p].fileData.file_path, upstreamOk)
     IN page' = [ page EXCEPT ![p] =
          IF res.error
          THEN [ @ EXCEPT !.pc = "ready", !.downloading = FALSE,
                          !.toast = "Download Failed" ]
          ELSE [ @ EXCEPT !.pc = "ready", !.downloading = FALSE,
                          !.toast = "Success!",
                          !.saved = SavedFile(page[p].fileData, res.data) ] ]
  /\ UNCHANGED <<now, upstreamOk, files, storage, nextId, up, sweep>>

(* The tab is closed (or reloaded) once nothing is in flight. *)
ClosePage(p) ==
  /\ page[p].pc = "ready"
  /\ page' = [ page EXCEPT ![p] = PageClosed ]
  /\ UNCHANGED <<now, upstreamOk, files, storage, nextId, up, sweep>>

\* Opening the link: loadFileData.
Load(p) ==
  \/ \E fileId \in 1..MaxUploads : OpenPage(p, fileId)
  \/ LoadLookup(p)
  \/ LoadRemove(p)
  \/ LoadDelete(p)
  \/ ClosePage(p)

\* The Download button: handleDownload.
Download(p) ==
  \/ DownloadClick(p)
  \/ DownloadFetch(p)

\* ------------------------------------------- cleanup-expired-files (sweep)
\* The JSON bodies of the three responses, with their status.
DeletedResponse(expiredFiles) == <<200, "Deleted", Cardinality(expiredFiles)>>
NoneFoundResponse == <<200, "No expired files found">>
ErrorResponse(message) == <<400, message>>

\* The invocation answers: its locals are gone.
SweepReturns(response) == [ SweepIdle EXCEPT !.response = response ]

(* Deno.serve handler, lines 232-245: a request (not the CORS preflight,   *)
(* which is answered 'ok' and touches nothing) arrives; the handler builds  *)
(* the select with new Date() and awaits it.                                *)
SweepInvoke(s) ==
  /\ sweep[s].pc = "idle"
  /\ sweep' = [ sweep EXCEPT ![s] = [ SweepIdle EXCEPT !.pc = "select", !.ts = now ] ]
  /\ UNCHANGED <<now, upstreamOk, files, storage, nextId, up, page>>

(* lines 242-254 and 276-279: the select answers; with expired rows the     *)
(* handler issues the batch removal of their objects, with none it answers  *)
(* 'No expired files found'.                                                *)
SweepSelect(s) ==
  /\ sweep[s].pc = "select"
  /\ LET fetchError == ~upstreamOk
         expiredFiles == RowsExpiredBefore(files, sweep[s].ts)
     IN sweep' = [ sweep EXCEPT ![s] =
          IF fetchError THEN SweepReturns(ErrorResponse(UpstreamMessage))
          ELSE IF Cardinality(expiredFiles) > 0
               THEN [ @ EXCEPT !.pc = "remove", !.expiredFiles = expiredFiles ]
          ELSE SweepReturns(NoneFoundResponse) ]
  /\ UNCHANGED <<now, upstreamOk, files, storage, nextId, up, page>>

\* expiredFiles.map(file => file.file_path)
FilePaths(expiredFiles) == { r.file_path : r \in expiredFiles }

\* SweepRemove as it would be if the storage error were thrown.
SweepRemoveAborts(s) ==
  /\ sweep[s].pc = "remove"
  /\ storage' = IF upstreamOk
                THEN RemoveObjects(storage, FilePaths(sweep[s].expiredFiles))
                ELSE storage
  /\ sweep' = [ sweep EXCEPT ![s] =
       IF upstreamOk THEN [ @ EXCEPT !.pc = "delete", !.ts = now ]
       ELSE SweepReturns(ErrorResponse(UpstreamMessage)) ]
  /\ UNCHANGED <<now, upstreamOk, files, nextId, up, page>>

(* lines 250-263: the batch removal answers; a storage error is logged      *)
(* only, and the handler builds the delete with a new new Date().           *)
SweepRemove(s) ==
  /\ sweep[s].pc = "remove"
  /\ storage' = IF upstreamOk
                THEN RemoveObjects(storage, FilePaths(sweep[s].expiredFiles))
                ELSE storage
  /\ sweep' = [ sweep EXCEPT ![s].pc = "delete", ![s].ts = now ]
  /\ UNCHANGED <<now, upstreamOk, files, nextId, up, page>>

(* lines 260-273 and 280-285: the delete answers; the response reports the  *)
(* number of rows the select had returned.                                  *)
SweepDelete(s) ==
  /\ sweep[s].pc = "delete"
  /\ LET dbError == ~upstreamOk IN
       /\ files' = IF dbError THEN files
                   ELSE files \ RowsExpiredBefore(files, sweep[s].ts)
       /\ sweep' = [ sweep EXCEPT ![s] =
            IF dbError THEN SweepReturns(ErrorResponse(UpstreamMessage))
            ELSE SweepReturns(DeletedResponse(sweep[s].expiredFiles)) ]
  /\ UNCHANGED <<now, upstreamOk, storage, nextId, up, page>>

Sweep(s) ==
  \/ SweepInvoke(s)
  \/ SweepSelect(s)
  \/ SweepRemove(s)
  \/ SweepDelete(s)

\* ---------------------------------------------------------- specifications
Environment == Tick \/ UpstreamFail \/ UpstreamRecover

\* The upload page and a download tab: the uploader picks any file and
\* protects it with "abc" or not at all, the downloader types any password.
Next ==
  \/ Environment
  \/ Upload(Files, {"", "abc"})
  \/ \E p \in Pages : Load(p) \/ Download(p)
  \/ \E p \in Pages, password \in Passwords : SetPassword(p, password)

Spec == Init /\ [][Next]_vars

\* Two concurrent sweep invocations beside the uploader and a download tab;
\* the uploads carry one file and no password.
SweepNext ==
  \/ Environment
  \/ Upload({ f \in Files : f.name = "a.txt" }, {""})
  \/ \E p \in Pages : Load(p) \/ Download(p)
  \/ \E s \in Sweepers : Sweep(s)

SweepSpec == Init /\ [][SweepNext]_vars

\* The uploader and one sweep invocation over a longer horizon: two uploads
\* of one file with no password, so that a second row can expire while the
\* invocation is between its select and its delete.
RaceNext ==
  \/ TickTo(MaxRaceTime) \/ UpstreamFail \/ UpstreamRecover
  \/ \E f \in { g \in Files : g.name = "a.txt" }, minutes \in Minutes :
       UploadClickUpTo(MaxRaceUploads, f, "", minutes)
  \/ UploadPut
  \/ UploadInsert
  \/ ResetForm
  \/ \E s \in {"s1"} : Sweep(s)

RaceSpec == Init /\ [][RaceNext]_vars

\* ------------------------------------------------- how the claims see steps
\* Tab p's awaited call is answered in this step, the tab being at `pc`.
PageStep(p, pc) == page[p].pc = pc /\ page'[p] # page[p]

\* The select of tab p is answered, without a backend error, with the row
\* of the tab's id.
LookupFinds(p, r) ==
  /\ PageStep(p, "lookup")
  /\ upstreamOk
  /\ r \in files
  /\ r.id = page[p].fileId

\* The Download button of tab p is clicked in this step (the only steps of a
\* rendered page that leave the password field alone and the tab open).
ClickStep(p) ==
  /\ page[p].pc = "ready" /\ page[p].error = "" /\ page[p].fileData # Null
  /\ page'[p] # page[p]
  /\ page'[p].password = page[p].password
  /\ page'[p].pc # "closed"

\* The click went on to the byte fetch / showed a toast and stopped.
GoesToFetch(p) == page'[p].pc = "fetch" /\ page'[p].downloading
StopsWith(p, toast) ==
  /\ page'[p].pc = "ready"
  /\ page'[p].toast = toast
  /\ page'[p].saved = page[p].saved
  /\ storage' = storage /\ files' = files

\* The byte fetch of tab p is answered in this step and hands over bytes.
Delivers(p) == PageStep(p, "fetch") /\ page'[p].toast = "Success!"

\* The upload's storage put / insert is answered in this step.
UploadStep(pc) == up.pc = pc /\ up' # up

\* Sweep invocation s's awaited call is answered in this step.
SweepStep(s, pc) == sweep[s].pc = pc /\ sweep'[s] # sweep[s]

\* ------------------------------------------------------------------ claims

C2_NoBytesOnceExpired ==
  [][ \A p \in Pages :
        Delivers(p) => now < page[p].fileData.expires_at ]_vars

\* C3 as stated: on a record uploaded with password P, the input P passes the
\* gate and any input Q # P ends in 'Incorrect Password' with nothing
\* delivered.
C3_AnyOtherInputIncorrect ==
  [][ \A p \in Pages : \A P \in Passwords \ {""} :
        ClickStep(p) /\ page[p].fileData.password_hash = hashPassword(P) =>
          IF page[p].password = P
          THEN GoesToFetch(p)
          ELSE StopsWith(p, "Incorrect Password") ]_vars

\* C3, amended: a record uploaded with a (non-empty) password P stores the
\* digest of P; on such a record the input P passes the gate and the fetch
\* that the storage answers hands over the object's bytes; a non-empty input
\* Q # P ends in 'Incorrect Password' and the empty input in 'Password
\* Required', both without a fetch and with nothing delivered.
C3_PasswordGate ==
  [][ /\ \A r \in files' \ files :
           up.password # "" => r.password_hash = <<"sha256", up.password>>
      /\ \A p \in Pages : \A P \in Passwords \ {""} :
           /\ ClickStep(p) /\ page[p].fileData.password_hash = <<"sha256", P>> =>
                IF page[p].password = P THEN GoesToFetch(p)
                ELSE IF page[p].password = "" THEN StopsWith(p, "Password Required")
                ELSE StopsWith(p, "Incorrect Password")
           /\ ( /\ PageStep(p, "fetch")
                /\ page[p].fileData.password_hash = <<"sha256", P>>
                /\ upstreamOk
                /\ page[p].fileData.file_path \in DOMAIN storage ) =>
                /\ Delivers(p)
                /\ page'[p].saved.bytes = storage[page[p].fileData.file_path]
    ]_vars

\* A password-protected record has been downloaded, by a tab that was
\* refused before.
C3_Witness ==
  \E p \in Pages :
    /\ page[p].fileData # Null
    /\ page[p].fileData.password_hash # Null
    /\ page[p].saved # Null
    /\ page[p].toast = "Incorrect Password"

\* The file the user picked under this name.
Picked(name) == CHOOSE f \in Files : f.name = name

\* C4: round trip.  The insert writes the row of the file the upload stored:
\* its filename is the file's name and the object under its key holds the
\* file's bytes; stored objects are never rewritten; a tab shows the row of
\* its link's id; the click on a page without a wrong password goes to the
\* fetch, and the fetch the storage answers for a present object delivers;
\* whatever a tab has saved is exactly the bytes and the name of the file
\* uploaded under its id.
C4_RoundTrip ==
  /\ [][ /\ \A r \in files' \ files :
              /\ r.id = up.fileId /\ r.filename = up.file.name
              /\ r.file_path = up.filePath
              /\ r.file_path \in DOMAIN storage
              /\ storage[r.file_path] = up.file.bytes
              /\ up'.shareLink = <<"download", r.id>>
         /\ \A k \in DOMAIN storage \cap DOMAIN storage' : storage'[k] = storage[k]
         /\ \A p \in Pages :
              /\ ( /\ ClickStep(p)
                   /\ \/ page[p].fileData.password_hash = Null
                      \/ page[p].fileData.password_hash = <<"sha256", page[p].password>>
                 ) => GoesToFetch(p)
              /\ ( /\ PageStep(p, "fetch") /\ upstreamOk
                   /\ page[p].fileData.file_path \in DOMAIN storage
                 ) => /\ Delivers(p)
                      /\ page'[p].saved =
                           [ name  |-> page[p].fileData.filename,
                             bytes |-> storage[page[p].fileData.file_path] ]
       ]_vars
  /\ [](\A p \in Pages :
          /\ page[p].fileData # Null =>
               /\ page[p].fileData.id = page[p].fileId
               /\ page[p].fileData.file_path =
                    <<"uploads", page[p].fileId, page[p].fileData.filename>>
          /\ page[p].saved # Null =>
               /\ page[p].fileData # Null
               /\ page[p].saved.name = page[p].fileData.filename
               /\ page[p].saved.bytes = Picked(page[p].fileData.filename).bytes)

\* The link the upload page still shows has been opened, the password typed
\* and the two-byte file saved under its name.
C4_Witness ==
  \E p \in Pages :
    /\ page[p].saved = [ name |-> "b.txt", bytes |-> <<2, 2>> ]
    /\ page[p].password = "abc"
    /\ up.shareLink = <<"download", page[p].fileId>>

\* C5: an upload made with the empty password field stores a row whose
\* password_hash is null, and the click on a page showing a row without a
\* password hash shows no password toast and goes straight to the byte
\* fetch, whatever its password field holds.
C5_NoPasswordNoGate ==
  [][ /\ \A r \in files' \ files :
           up.password = "" => r.password_hash = Null
      /\ \A p \in Pages :
           ClickStep(p) /\ page[p].fileData.password_hash = Null =>
             /\ GoesToFetch(p)
             /\ page'[p].toast = page[p].toast ]_vars

\* A file uploaded without a password has been downloaded.
C5_Witness ==
  \E p \in Pages :
    /\ page[p].fileData # Null
    /\ page[p].fileData.password_hash = Null
    /\ page[p].saved # Null
    /\ page[p].toast = "Success!"

\* C6: the row is written only after the storage put under the same key has
\* succeeded: a row appears only in the step that answers the upload's
\* insert, with the upload's key, under which the upload's bytes are stored;
\* a failed put ends the upload with no insert issued, no row and no link;
\* the insert is only ever awaited with the bytes stored; the share link is
\* set only in the step in which the insert succeeds, to that row's id.
C6_StoreBeforeRecord ==
  /\ [][ /\ \A r \in files' \ files :
              /\ up.pc = "insert"
              /\ r.id = up.fileId /\ r.file_path = up.filePath
              /\ r.file_path \in DOMAIN storage
              /\ storage[r.file_path] = up.file.bytes
         /\ UploadStep("put") /\ ~upstreamOk =>
              /\ up'.pc = "idle" /\ ~up'.uploading
              /\ up'.toast = "Upload Failed"
              /\ up'.shareLink = up.shareLink
              /\ files' = files /\ storage' = storage
         /\ UploadStep("put") /\ upstreamOk =>
              /\ up'.pc = "insert"
              /\ up.filePath \in DOMAIN storage'
              /\ storage'[up.filePath] = up.file.bytes
              /\ files' = files
         /\ up'.shareLink # up.shareLink /\ up'.shareLink # NoLink =>
              /\ up.pc = "insert" /\ upstreamOk
              /\ \E r \in files' \ files : up'.shareLink = <<"download", r.id>>
       ]_vars
  /\ [](up.pc = "insert" =>
          /\ up.filePath \in DOMAIN storage
          /\ storage[up.filePath] = up.file.bytes
          /\ \A r \in files : r.id # up.fileId)

\* A link has been issued: the upload has returned with the success toast,
\* and the link's row and the row's object are there.
C6_Witness ==
  /\ up.shareLink # NoLink
  /\ up.pc = "idle" /\ up.toast = "Success!"
  /\ \E r \in files :
       /\ up.shareLink = <<"download", r.id>>
       /\ r.file_path \in DOMAIN storage

\* No row is expired as of the timestamp ts.
NoneExpiredBefore(table, ts) == \A r \in table : ~(r.expires_at < ts)

\* C7: the sweep is idempotent when invoked twice in a row.  An invocation
\* whose delete succeeds leaves no row that is expired as of the delete's
\* timestamp; an invocation whose select is answered when no row is expired
\* as of its timestamp reports 'No expired files found' and changes neither
\* the table nor the bucket.
C7_SweepIdempotent ==
  [][ \A s \in Sweepers :
        /\ SweepStep(s, "delete") /\ upstreamOk =>
             /\ NoneExpiredBefore(files', sweep[s].ts)
             /\ sweep'[s].response[1] = 200
        /\ ( /\ SweepStep(s, "select") /\ upstreamOk
             /\ NoneExpiredBefore(files, sweep[s].ts) ) =>
             /\ sweep'[s].pc = "idle"
             /\ sweep'[s].response = <<200, "No expired files found">>
             /\ files' = files /\ storage' = storage ]_vars

\* One invocation has answered with a deleted count and the other with the
\* empty result, and the table is empty.
C7_Witness ==
  \E s, t \in Sweepers :
    /\ sweep[s].pc = "idle" /\ Len(sweep[s].response) = 3
    /\ sweep[t].pc = "idle" /\ sweep[t].response = <<200, "No expired files found">>
    /\ files = {} /\ nextId > 0

\* C8: when a sweep invocation returns deletedCount = n, exactly n rows were
\* deleted from the table by that invocation, and it returns the
\* empty-result message exactly when no row had expires_at < now.
C8_CountIsRowsDeleted ==
  [][ \A s \in Sweepers :
        /\ SweepStep(s, "delete") /\ Len(sweep'[s].response) = 3 =>
             sweep'[s].response[3] = Cardinality(files \ files')
        /\ SweepStep(s, "select") /\ upstreamOk =>
             ( sweep'[s].response = <<200, "No expired files found">>
               <=> NoneExpiredBefore(files, sweep[s].ts) ) ]_vars

C10_NoErrorSwallowed ==
  [][ ~upstreamOk =>
        /\ UploadStep("put") \/ UploadStep("insert") =>
             /\ up'.pc = "idle" /\ up'.toast = "Upload Failed"
             /\ up'.shareLink = up.shareLink
        /\ \A p \in Pages :
             /\ ( PageStep(p, "lookup") \/ PageStep(p, "remove")
                  \/ PageStep(p, "delete") ) =>
                  /\ page'[p].pc = "ready"
                  /\ page'[p].error = UpstreamMessage
             /\ PageStep(p, "fetch") =>
                  /\ page'[p].toast = "Download Failed"
                  /\ page'[p].saved = page[p].saved
        /\ \A s \in Sweepers :
             /\ SweepStep(s, "select") \/ SweepStep(s, "delete") =>
                  /\ sweep'[s].pc = "idle"
                  /\ sweep'[s].response = <<400, UpstreamMessage>>
             /\ SweepStep(s, "remove") => sweep'[s].pc = "delete" ]_vars

\* C11: a sweep invocation deletes a row only if the same invocation had the
\* row's file_path in its storage removal batch: the rows that leave the
\* table in the step that answers its delete are among the rows its select
\* returned, also when time advances between the select and the delete.
C11_DeletesOnlyWhatItRemoved ==
  [][ \A s \in Sweepers :
        SweepStep(s, "delete") =>
          \A r \in files \ files' :
            \E q \in sweep[s].expiredFiles : q.file_path = r.file_path ]_vars

\* C12: in the sweep a failed batch removal from storage does not abort the
\* deletion of the rows: the step that answers the failed removal leaves
\* the bucket as it is, answers nothing yet and issues the delete with the
\* time of that instant; the delete, when it is answered without a database
\* error, removes every row with expires_at before that time and the
\* invocation answers 200 with the deleted count.
C12_RemovalFailureNotFatal ==
  [][ \A s \in Sweepers :
        /\ (SweepStep(s, "remove") /\ ~upstreamOk) =>
             /\ storage' = storage
             /\ files' = files
             /\ sweep'[s].pc = "delete"
             /\ sweep'[s].ts = now
             /\ sweep'[s].response = NoResponse
             /\ sweep'[s].expiredFiles = sweep[s].expiredFiles
        /\ (SweepStep(s, "delete") /\ upstreamOk) =>
             /\ files' = { r \in files : ~(r.expires_at < sweep[s].ts) }
             /\ storage' = storage
             /\ sweep'[s].pc = "idle"
             /\ sweep'[s].response =
                  <<200, "Deleted", Cardinality(sweep[s].expiredFiles)>> ]_vars

\* Sweep s1, the only invocation there has been, answered 'Deleted 1': the
\* row is gone and its object, whose removal failed, is still in the bucket.
C12_Witness ==
  /\ sweep["s1"].response = <<200, "Deleted", 1>>
  /\ sweep["s2"] = SweepIdle
  /\ \A p \in Pages : page[p] = PageClosed
  /\ files = {}
  /\ storage # << >>
  /\ nextId = 1

\* C13: when the object of a loaded page has been removed before the byte
\* fetch is answered, the fetch fails: the page shows the generic 'Download
\* Failed' toast, saves nothing and clears its downloading flag; a fetch
\* that hands over bytes hands over the bytes the bucket holds under the
\* record's path at that instant.
C13_RemovedObjectNotDelivered ==
  [][ \A p \in Pages :
        PageStep(p, "fetch") =>
          LET path == page[p].fileData.file_path IN
            /\ path \notin DOMAIN storage =>
                 /\ page'[p].toast = "Download Failed"
                 /\ page'[p].saved = page[p].saved
                 /\ ~page'[p].downloading
                 /\ page'[p].pc = "ready"
            /\ page'[p].toast = "Success!" =>
                 /\ path \in DOMAIN storage
                 /\ page'[p].saved.bytes = storage[path]
            /\ storage' = storage /\ files' = files ]_vars

\* The byte fetch of a loaded page is in flight, the backend is up, and a
\* sweep has removed the object since the lookup.
C13_Witness ==
  \E p \in Pages :
    /\ page[p].pc = "fetch"
    /\ page[p].downloading
    /\ upstreamOk
    /\ page[p].fileData.file_path \notin DOMAIN storage
    /\ \E s \in Sweepers :
         /\ sweep[s].pc = "delete"
         /\ page[p].fileData \in sweep[s].expiredFiles

\* C14: a backend failure during the upload is surfaced and nothing is rolled
\* back: the step that answers a failed storage put, and the step that
\* answers a failed insert, show the 'Upload Failed' toast, issue no share
\* link, set uploading back to false and leave the bucket and the table as
\* they are; after the failed insert the object that was put is still in
\* the bucket and no row has its id.
C14_UploadFailureSurfaced ==
  [][ /\ ((UploadStep("put") \/ UploadStep("insert")) /\ ~upstreamOk) =>
           /\ up'.toast = "Upload Failed"
           /\ up'.shareLink = NoLink
           /\ ~up'.uploading
           /\ up'.pc = "idle"
           /\ storage' = storage
           /\ files' = files
      /\ (UploadStep("insert") /\ ~upstreamOk) =>
           /\ up.filePath \in DOMAIN storage'
           /\ storage'[up.filePath] = up.file.bytes
           /\ \A r \in files' : r.id # up.fileId /\ r.file_path # up.filePath ]_vars

\* The one upload there has been failed at its insert: the failure toast is
\* shown with no link, and the object is in the bucket with no row.
C14_Witness ==
  /\ up.pc = "idle"
  /\ up.toast = "Upload Failed"
  /\ up.shareLink = NoLink
  /\ ~up.uploading
  /\ nextId = 1
  /\ files = {}
  /\ DOMAIN storage = { FilePath(1, f.name) : f \in { g \in Files : g.name = "b.txt" } }

\* C15: a lookup that is answered by a backend that is up and finds no row
\* with the page's id ends in the not-found outcome: the page's error is
\* 'File not found', which is not the upstream-failure message, and the
\* step deletes nothing from the bucket or the table.
C15_MissIsFileNotFound ==
  [][ \A p \in Pages :
        ( /\ PageStep(p, "lookup")
          /\ upstreamOk
          /\ \A r \in files : r.id # page[p].fileId ) =>
            /\ page'[p].error = "File not found"
            /\ page'[p].error # UpstreamMessage
            /\ page'[p].fileData = Null
            /\ storage' = storage
            /\ files' = files ]_vars

\* C16: a refused password attempt on a protected file changes nothing but
\* the toast: the click starts no fetch, deletes nothing and leaves the
\* record, the typed password and the page's state as they were; a click
\* with the right password goes on to the byte fetch whatever was refused
\* before, and the fetch, answered by a backend that holds the object,
\* saves the file.
C16_RefusedAttemptChangesNothing ==
  [][ \A p \in Pages :
        /\ (ClickStep(p) /\ page[p].fileData.password_hash # Null) =>
             IF <<"sha256", page[p].password>> = page[p].fileData.password_hash
             THEN GoesToFetch(p)
             ELSE /\ page'[p] =
                       [ page[p] EXCEPT !.toast =
                           IF page[p].password = "" THEN "Password Required"
                           ELSE "Incorrect Password" ]
                  /\ storage' = storage
                  /\ files' = files
        /\ ( /\ PageStep(p, "fetch")
             /\ upstreamOk
             /\ page[p].fileData.file_path \in DOMAIN storage ) =>
               /\ page'[p].toast = "Success!"
               /\ page'[p].saved.bytes = storage[page[p].fileData.file_path] ]_vars

\* After a refused attempt, whose toast is still shown, the right password
\* was typed on the same page and the click went on to the byte fetch.
C16_Witness ==
  \E p \in Pages :
    /\ page[p].pc = "fetch"
    /\ page[p].downloading
    /\ page[p].toast = "Incorrect Password"
    /\ page[p].fileData.password_hash = <<"sha256", page[p].password>>
    /\ page[p].fileData \in files

\* C17 as stated: the not-found, expired and upstream-failure outcomes,
\* raised by the lookup or by the byte fetch, set the page's error state,
\* after which no download attempt can be started from the page; a refused
\* password leaves the page ready.
C17_FailuresBlockThePage ==
  [][ \A p \in Pages :
        /\ ( /\ PageStep(p, "lookup")
             /\ (~upstreamOk \/ \A r \in files : r.id # page[p].fileId) ) =>
               page'[p].error # ""
        /\ PageStep(p, "delete") => page'[p].error # ""
        /\ ( /\ PageStep(p, "fetch")
             /\ (~upstreamOk \/ page[p].fileData.file_path \notin DOMAIN storage) ) =>
               page'[p].error # ""
        /\ page[p].error # "" =>
             \/ page'[p] = page[p]
             \/ page'[p].pc = "closed"
        /\ (ClickStep(p) /\ page'[p].pc # "fetch") =>
             page'[p].pc = "ready" /\ page'[p].error = "" /\ ~page'[p].loading ]_vars

\* C17, amended: the outcomes of the lookup -- no row, an expired row (once
\* its deletion was attempted) and a backend failure -- set the page's error
\* state and show no record, after which nothing can be done on the page but
\* close it: no download attempt can be started; a byte fetch that fails, for
\* a backend failure or a missing object, shows the 'Download Failed' toast
\* only and leaves the page ready with its record, as a refused password
\* does.
C17_LookupFailuresBlockThePage ==
  [][ \A p \in Pages :
        /\ ( /\ PageStep(p, "lookup")
             /\ (~upstreamOk \/ \A r \in files : r.id # page[p].fileId) ) =>
               page'[p].error # "" /\ page'[p].fileData = Null
        /\ PageStep(p, "delete") =>
             page'[p].error = "File has expired and been deleted"
             /\ page'[p].fileData = Null
        /\ ( /\ PageStep(p, "fetch")
             /\ (~upstreamOk \/ page[p].fileData.file_path \notin DOMAIN storage) ) =>
               /\ page'[p] = [ page[p] EXCEPT !.pc = "ready",
                                               !.downloading = FALSE,
                                               !.toast = "Download Failed" ]
               /\ page'[p].error = ""
               /\ page'[p].fileData # Null
        /\ page[p].error # "" =>
             \/ page'[p] = page[p]
             \/ page'[p].pc = "closed"
        /\ (ClickStep(p) /\ page'[p].pc # "fetch") =>
             page'[p].pc = "ready" /\ page'[p].error = "" /\ ~page'[p].loading ]_vars

\* A byte fetch has failed on a loaded page: the failure toast is shown and
\* the page is ready, its record shown and its button enabled.
C17_Witness ==
  \E p \in Pages :
    /\ page[p].pc = "ready"
    /\ page[p].toast = "Download Failed"
    /\ page[p].error = ""
    /\ page[p].fileData # Null
    /\ ~page[p].loading
    /\ ~page[p].downloading
    /\ page[p].saved = Null

====
